---- MODULE Spec2Model ----
(***************************************************************************)
(* Model of the roto particle demo: the hot-reload manager                 *)
(* (ScriptManager::reload), the emission queue (EMITTER), and the systems  *)
(* registered on the FixedUpdate schedule (reload_script, add_particles,   *)
(* update_particles, update_instances).                                    *)
(*                                                                         *)
(* The file system and the wall clock are the environment: they change at  *)
(* any moment, also between the two reads reload makes (the metadata read  *)
(* on line 196 and SystemTime::now() on lines 201/217).  reload is         *)
(* therefore two steps, ReloadStat and ReloadRest.                         *)
(*                                                                         *)
(* The systems are registered as a plain tuple (main.rs:34-43), without    *)
(* .chain() or before/after constraints, so the schedule runs each of them *)
(* once per tick in an order the executor picks; systems with conflicting  *)
(* accesses never overlap.                                                 *)
(*                                                                         *)
(* Spec explores the loader against a file that is written, removed and    *)
(* backdated while the clock runs; SimSpec explores the simulation with    *)
(* scripts of every kind that emit particles; BindSpec explores the        *)
(* bindings with scripts of every kind that are written and removed.       *)
(* In these the add and update phases are one step each; LockSpec takes    *)
(* them apart into the entry-point call, its emits, the lock and the drain *)
(* to follow the EMITTER mutex.                                            *)
(***************************************************************************)
EXTENDS Integers, Sequences, FiniteSets, TLC

\* ---------------------------------------------------------------- bounds
MaxNow == 2        \* wall-clock values are 1..MaxNow
MaxTick == 2       \* fixed ticks are 0..MaxTick
MaxWrites == 2     \* content versions of the script file are 1..MaxWrites
MaxEmit == 2       \* particles emitted in a whole run
Lifetime == 2      \* the script's update returns absent once elapsed >= Lifetime
MaxPerCall == 2    \* particles one call of add emits at most

\* ------------------------------------------------------------- constants
UNIX_EPOCH == 0    \* SystemTime::UNIX_EPOCH, the initial last_compile
None == 0          \* Option::None for a binding; n > 0 is the function
                   \* compiled from content version n
Idle == -2         \* reload is not between its two reads
StatErr == -1      \* the metadata read failed

NotFoundMsg == "Script not found"
CompileErrMsg == "compile error"

Systems == {"reload_script", "add_particles", "update_particles", "update_instances"}

\* What a script file can contain: which entry points it defines, or a
\* text the compiler rejects.
Kinds == {"both", "add", "update", "bad"}

\* The EMITTER mutex (main.rs:47) unlocked.
Free == "free"

\* No add_particles or update_particles is under way.  Otherwise at is the
\* position in the system, n the number of particles the entry-point call
\* emits and left how many of them it has yet to emit.
Idling == [at |-> "idle", left |-> 0, n |-> 0]

VARIABLES
    now,                      \* SystemTime::now()
    file,                     \* the script file: present, mtime, ver, kind, backdated
    last_compile,             \* ScriptManager.last_compile
    script_not_found_logged,  \* ScriptManager.script_not_found_logged
    update,                   \* ScriptManager.update
    add,                      \* ScriptManager.add
    update_ms,                \* ScriptManager.update_ms
    add_ms,                   \* ScriptManager.add_ms
    EMITTER,                  \* the emission queue
    particles,                \* Particles.0, the live list
    instances,                \* InstanceMaterialData.0
    time,                     \* Time::elapsed_secs() of the current tick
    ran,                      \* the systems that ran in this tick
    modified,                 \* reload's local: Idle, StatErr or the mtime read
    diag,                     \* what the latest reload printed
    nextId,                   \* serial of the next emitted particle
    quota,                    \* particles the scripts of this run emit at most
    kinds,                    \* the kinds of script the edits of this run write
    lock,                     \* the holder of the EMITTER mutex
    pc,                       \* where a running add_particles or update_particles is
    hist                      \* history of the run, read only by the properties

vars == <<now, file, last_compile, script_not_found_logged, update, add,
          update_ms, add_ms, EMITTER, particles, instances, time, ran,
          modified, diag, nextId, quota, kinds, lock, pc, hist>>

envVars == <<now, file>>
mgrVars == <<last_compile, script_not_found_logged, update, add, diag>>
simVars == <<EMITTER, particles, nextId>>

Range(s) == {s[i] : i \in 1..Len(s)}

\* The history with system s noted as the next one to run in this tick.
Ran(h, s) == IF h.watch THEN [h EXCEPT !.order = Append(@, s)] ELSE h

Ids(s) == {s[i].particle.id : i \in 1..Len(s)}

QIds(q) == {q[i].id : i \in 1..Len(q)}

Max(a, b) == IF a >= b THEN a ELSE b

\* ---------------------------------------------------------------- script
\* Names a compiled package resolves; "err" when the compiler rejects the
\* text or cannot read the file.
Compile(f) ==
    IF ~f.present \/ f.kind = "bad" THEN {"err"}
    ELSE IF f.kind = "both" THEN {"add", "update"}
    ELSE {f.kind}

\* The script's update: the particle with a new scale while it is younger
\* than Lifetime, absent afterwards.  <<>> is absent, <<p>> is Some(p).
UpdateFn(t, p) ==
    IF t >= Lifetime THEN <<>> ELSE << [p EXCEPT !.scale = t + 1] >>

\* ------------------------------------------------------------------- Init
InitHist ==
    [ nCompiles    |-> 0,      \* compiler invocations
      compiledVer  |-> 0,      \* content version last handed to the compiler
      lastCompM    |-> -1,     \* mtime read by the latest compiling reload
      lastCompAt   |-> -1,     \* clock value of the latest compile
      maxObs       |-> -1,     \* largest mtime any reload has read
      nIncr        |-> 0,      \* reloads that read an mtime > every earlier one
      nNonDecr     |-> 0,      \* reloads that read an mtime >= every earlier one
      prevMissing  |-> FALSE,  \* the previous reload found the file unreadable
      missRuns     |-> 0,      \* runs of consecutive unreadable reloads so far
      lastAddCall  |-> -1,     \* binding the latest add phase called
      lastUpdCall  |-> -1,     \* binding the latest update phase called
      failed       |-> FALSE,  \* the latest compile failed
      preFail      |-> <<0, 0>>, \* add and update before the latest failed compile
      seen         |-> {},     \* ids in the live list at some point of this tick
      kept         |-> {},     \* ids update returned a particle for, this tick
      updUnbound   |-> FALSE,  \* this tick's update phase found update unbound
      dead         |-> {},     \* ids update returned absent for
      watch        |-> FALSE,  \* this run records the order of the systems
      order        |-> <<>> ]  \* the systems that ran in this tick, in order

\* The state after ScriptManager::new and setup (main.rs:183-192, 239-247).
InitState ==
    /\ now = 1
    /\ file \in [present : {TRUE}, mtime : {1}, ver : {1}, kind : kinds,
                 backdated : {FALSE}]
               \cup {[present |-> FALSE, mtime |-> 0, ver |-> 1, kind |-> "bad",
                       backdated |-> FALSE]}
    /\ last_compile = UNIX_EPOCH
    /\ script_not_found_logged = FALSE
    /\ update = None
    /\ add = None
    /\ update_ms = 0
    /\ add_ms = 0
    /\ EMITTER = <<>>
    /\ particles = <<>>
    /\ instances = <<>>
    /\ time = 0
    /\ ran = {}
    /\ modified = Idle
    /\ diag = {}
    /\ nextId = 1
    /\ lock = Free
    /\ pc = Idling

\* Scripts that define both entry points or do not compile, and emit
\* nothing: the live list stays empty and the run is about when reload
\* compiles.
Init ==
    /\ kinds = {"both", "bad"}
    /\ InitState
    /\ quota = 0
    /\ hist = InitHist

\* Scripts of every kind, which emit nothing.
BindInit ==
    /\ kinds = Kinds
    /\ InitState
    /\ quota = 0
    /\ hist = InitHist

\* A script that defines both entry points, which emit up to MaxEmit
\* particles.
LockInit ==
    /\ kinds = {"both"}
    /\ InitState
    /\ quota = MaxEmit
    /\ hist = InitHist

\* Scripts of every kind, whose entry points emit up to MaxEmit particles.
SimInit ==
    /\ kinds = Kinds
    /\ InitState
    /\ quota = MaxEmit
    /\ hist = [InitHist EXCEPT !.watch = TRUE]

\* ------------------------------------------------------------ environment
\* The wall clock moves on.
Advance ==
    /\ now < MaxNow
    /\ now' = now + 1
    /\ UNCHANGED <<file, last_compile, script_not_found_logged, update, add,
                   update_ms, add_ms, EMITTER, particles, instances, time,
                   ran, modified, diag, nextId, quota, kinds, lock, pc, hist>>

\* The script is rewritten, or created again after it was missing: new
\* content, mtime stamped with the current clock.
WriteFile ==
    /\ file.ver < MaxWrites
    /\ \E k \in kinds :
         file' = [present |-> TRUE, mtime |-> now, ver |-> file.ver + 1,
                  kind |-> k, backdated |-> FALSE]
    /\ UNCHANGED <<now, last_compile, script_not_found_logged, update, add,
                   update_ms, add_ms, EMITTER, particles, instances, time,
                   ran, modified, diag, nextId, quota, kinds, lock, pc, hist>>

\* The script is removed.
DeleteFile ==
    /\ file.present
    /\ file' = [present |-> FALSE, mtime |-> 0, ver |-> file.ver, kind |-> "bad",
                backdated |-> FALSE]
    /\ UNCHANGED <<now, last_compile, script_not_found_logged, update, add,
                   update_ms, add_ms, EMITTER, particles, instances, time,
                   ran, modified, diag, nextId, quota, kinds, lock, pc, hist>>

\* The script's mtime is set back (utimes, a restore that keeps timestamps);
\* the content stays.  Modification times never lie in the future.
TouchBack ==
    /\ file.present
    /\ \E m \in 0..(file.mtime - 1) :
         file' = [file EXCEPT !.mtime = m, !.backdated = TRUE]
    /\ UNCHANGED <<now, last_compile, script_not_found_logged, update, add,
                   update_ms, add_ms, EMITTER, particles, instances, time,
                   ran, modified, diag, nextId, quota, kinds, lock, pc, hist>>

\* ----------------------------------------------------------------- reload
\* main.rs:212 -- the script was checked later than it was modified.
UpToDate_Never(lc, m) == FALSE

UpToDate(lc, m) == lc > m

\* main.rs:202-205 -- the diagnostic of an unreadable script.
NotFoundReport_Always(logged) == {NotFoundMsg}

NotFoundReport(logged) == IF ~logged THEN {NotFoundMsg} ELSE {}

\* main.rs:210 -- the flag once the script is readable.
LoggedWhenReadable_Kept(logged) == logged

LoggedWhenReadable(logged) == FALSE

\* main.rs:221-235 -- the binding of entry point name after a compile that
\* produced pkg from content version ver: kept on a compile error, kept
\* when the package lacks the name, replaced otherwise.
Bound_ClearedOnError(old, pkg, name, ver) ==
    IF "err" \in pkg THEN None
    ELSE IF name \in pkg THEN ver ELSE old

Bound_Unbinds(old, pkg, name, ver) ==
    IF "err" \in pkg THEN old
    ELSE IF name \in pkg THEN ver ELSE None

Bound(old, pkg, name, ver) ==
    IF "err" \in pkg THEN old
    ELSE IF name \in pkg THEN ver ELSE old

\* main.rs:201 -- last_compile after a reload that found the script
\* unreadable at clock value t.
MissingStamp_Kept(lc, t) == lc

MissingStamp(lc, t) == t

\* main.rs:196-198 -- reload reads the file's metadata.
ReloadStat ==
    /\ "reload_script" \notin ran
    /\ modified = Idle
    /\ pc = Idling
    /\ modified' = IF file.present THEN file.mtime ELSE StatErr
    /\ hist' = IF file.present
               THEN [hist EXCEPT
                       !.maxObs = Max(hist.maxObs, file.mtime),
                       !.nIncr = IF file.mtime > hist.maxObs THEN @ + 1 ELSE @,
                       !.nNonDecr = IF file.mtime >= hist.maxObs THEN @ + 1 ELSE @]
               ELSE hist
    /\ UNCHANGED <<now, file, last_compile, script_not_found_logged, update,
                   add, update_ms, add_ms, EMITTER, particles, instances,
                   time, ran, diag, nextId, quota, kinds, lock, pc>>

\* main.rs:199-236 -- the rest of reload, from the match on the metadata.
ReloadRest ==
    /\ modified # Idle
    /\ modified' = Idle
    /\ ran' = ran \cup {"reload_script"}
    /\ IF modified = StatErr
       THEN /\ last_compile' = MissingStamp(last_compile, now)
            /\ diag' = NotFoundReport(script_not_found_logged)
            /\ script_not_found_logged' = TRUE
            /\ UNCHANGED <<update, add>>
            /\ hist' = [Ran(hist, "reload_script") EXCEPT
                          !.prevMissing = TRUE,
                          !.missRuns = IF hist.prevMissing THEN @ ELSE @ + 1]
       ELSE IF UpToDate(last_compile, modified)
       THEN /\ script_not_found_logged' = LoggedWhenReadable(script_not_found_logged)
            /\ diag' = {}
            /\ UNCHANGED <<last_compile, update, add>>
            /\ hist' = [Ran(hist, "reload_script") EXCEPT !.prevMissing = FALSE]
       ELSE LET pkg == Compile(file) IN
            /\ script_not_found_logged' = LoggedWhenReadable(script_not_found_logged)
            /\ last_compile' = now
            /\ diag' = IF "err" \in pkg THEN {CompileErrMsg} ELSE {}
            /\ update' = Bound(update, pkg, "update", file.ver)
            /\ add' = Bound(add, pkg, "add", file.ver)
            /\ hist' = [Ran(hist, "reload_script") EXCEPT
                          !.prevMissing = FALSE,
                          !.nCompiles = @ + 1,
                          !.compiledVer = IF file.present THEN file.ver ELSE @,
                          !.lastCompM = modified,
                          !.lastCompAt = now,
                          !.failed = "err" \in pkg,
                          !.preFail = IF "err" \in pkg THEN <<add, update>> ELSE @]
    /\ UNCHANGED <<now, file, update_ms, add_ms, EMITTER, particles,
                   instances, time, nextId, quota, kinds, lock, pc>>

\* ------------------------------------------------------------ simulation
\* main.rs:86-88 -- emit pushes the particle on the queue.  The n particles
\* one entry-point call emits, the first with serial id; born and src record
\* the tick and the entry point that emitted them.
Emitted(n, id, clock, src) ==
    [i \in 1..n |-> [id |-> id + i - 1, scale |-> 0, born |-> clock, src |-> src]]

\* main.rs:288-293 -- the queue drained into records of the live list.
Drain_NextClock(q, clock) ==
    [i \in 1..Len(q) |-> [start_time |-> clock + 1, particle |-> q[i]]]

Drain_SkipFirst(q, clock) ==
    [i \in 1..(Len(q) - 1) |-> [start_time |-> clock, particle |-> q[i + 1]]]

Drain(q, clock) ==
    [i \in 1..Len(q) |-> [start_time |-> clock, particle |-> q[i]]]

\* main.rs:306-317 -- retain_mut: update is called on every record in
\* order; a returned particle replaces the stored one, absent drops the
\* record.
RECURSIVE RetainMut_Restamp(_, _)
RetainMut_Restamp(ps, clock) ==
    IF ps = <<>> THEN <<>>
    ELSE LET p == Head(ps)
             res == UpdateFn(clock - p.start_time, p.particle)
         IN  (IF Len(res) = 1
              THEN << [start_time |-> clock, particle |-> res[1]] >>
              ELSE <<>>)
             \o RetainMut_Restamp(Tail(ps), clock)

RECURSIVE RetainMut(_, _)
RetainMut(ps, clock) ==
    IF ps = <<>> THEN <<>>
    ELSE LET p == Head(ps)
             res == UpdateFn(clock - p.start_time, p.particle)
         IN  (IF Len(res) = 1 THEN << [p EXCEPT !.particle = res[1]] >> ELSE <<>>)
             \o RetainMut(Tail(ps), clock)

\* main.rs:268-285 -- what the add phase puts on the queue: the n particles
\* the call of add emits when add is bound, nothing when it is not (the
\* built-in emitter is commented out).
AddEmits_Fallback(a, n, id, clock) == Emitted(Max(n, 1), id, clock, "add")

AddEmits(a, n, id, clock) ==
    IF a # None THEN Emitted(n, id, clock, "add") ELSE <<>>

\* main.rs:86-88, 305-317 -- the live list and the queue after retain_mut
\* ran update over ps at clock, the calls having emitted em: emit pushes on
\* the queue, never on the list retain_mut walks.
UpdateResult_IntoList(ps, q, clock, em) ==
    [list |-> RetainMut(ps \o Drain(em, clock), clock), queue |-> q]

UpdateResult(ps, q, clock, em) ==
    [list |-> RetainMut(ps, clock), queue |-> q \o em]

\* main.rs:301-303 -- the live list after an update phase that returned
\* early because update is unbound.
Skipped_Culled(ps, clock) == RetainMut(ps, clock)

Skipped(ps, clock) == ps

\* main.rs:268-274, 301-320 -- an instrumentation field after a phase: the
\* measured cost when the entry point is bound, the old value otherwise.
Measured_Always(bound, old, cost) == cost

Measured(bound, old, cost) == IF bound THEN cost ELSE old

\* main.rs:327-329 -- Vec::resize with InstanceData::default().
DefaultInstance == [id |-> 0, scale |-> 0]

Resize(v, n) ==
    IF n <= Len(v) THEN SubSeq(v, 1, n)
    ELSE v \o [i \in 1..(n - Len(v)) |-> DefaultInstance]

\* main.rs:331-335 -- the record copied into an instance.
InstanceOf(p) == [id |-> p.id, scale |-> p.scale]

\* A system that takes ResMut<ScriptManager> cannot start while reload or
\* another system holds it.
ManagerFree == modified = Idle /\ pc = Idling

\* main.rs:263-294 -- add_particles: the add call, then the drain.
AddParticles ==
    /\ "add_particles" \notin ran
    /\ ManagerFree
    /\ ran' = ran \cup {"add_particles"}
    /\ \E n \in 0..MaxPerCall :
         LET em == AddEmits(add, n, nextId, time)
             q == EMITTER \o em
         IN  /\ n > 0 => add # None
             /\ nextId + Len(em) - 1 <= quota
             /\ particles' = particles \o Drain(q, time)
             /\ EMITTER' = <<>>
             /\ nextId' = nextId + Len(em)
             /\ add_ms' = Measured(add # None, add_ms, 1 + n)
             /\ hist' = [Ran(hist, "add_particles") EXCEPT
                           !.lastAddCall = add,
                           !.seen = @ \cup Ids(particles) \cup QIds(q)]
    /\ UNCHANGED <<now, file, last_compile, script_not_found_logged, update,
                   add, update_ms, instances, time, modified, diag, quota, kinds, lock, pc>>

\* main.rs:296-321 -- update_particles.
UpdateParticles ==
    /\ "update_particles" \notin ran
    /\ ManagerFree
    /\ ran' = ran \cup {"update_particles"}
    /\ IF update = None
       THEN /\ hist' = [Ran(hist, "update_particles") EXCEPT
                          !.lastUpdCall = None,
                          !.updUnbound = TRUE,
                          !.seen = @ \cup Ids(particles)]
            /\ particles' = Skipped(particles, time)
            /\ update_ms' = Measured(FALSE, update_ms, 1 + Len(particles))
            /\ UNCHANGED <<EMITTER, nextId>>
       ELSE \E n \in 0..1 :
              LET res == UpdateResult(particles, EMITTER, time,
                                      Emitted(n, nextId, time, "update"))
              IN  /\ n > 0 => (particles # <<>> /\ nextId + n - 1 <= quota)
                  /\ particles' = res.list
                  /\ EMITTER' = res.queue
              /\ nextId' = nextId + n
              /\ update_ms' = Measured(TRUE, update_ms, 1 + Len(particles))
              /\ hist' = [Ran(hist, "update_particles") EXCEPT
                            !.lastUpdCall = update,
                            !.updUnbound = FALSE,
                            !.seen = @ \cup Ids(particles),
                            !.kept = Ids(particles'),
                            !.dead = @ \cup (Ids(particles) \ Ids(particles'))]
    /\ UNCHANGED <<now, file, last_compile, script_not_found_logged, update,
                   add, add_ms, instances, time, modified, diag, quota, kinds, lock, pc>>

\* main.rs:323-336 -- update_instances.
UpdateInstances ==
    /\ "update_instances" \notin ran
    /\ pc = Idling
    /\ ran' = ran \cup {"update_instances"}
    /\ LET r == Resize(instances, Len(particles))
       IN  instances' = [i \in 1..Len(r) |-> InstanceOf(particles[i].particle)]
    /\ hist' = Ran(hist, "update_instances")
    /\ UNCHANGED <<now, file, last_compile, script_not_found_logged, update,
                   add, update_ms, add_ms, EMITTER, particles, time, modified,
                   diag, nextId, quota, kinds, lock, pc>>

\* main.rs:34-43 -- the FixedUpdate schedule has run every system once; the
\* fixed clock moves on by one timestep and the next tick starts.
EndTick ==
    /\ ran = Systems
    /\ time < MaxTick
    /\ time' = time + 1
    /\ ran' = {}
    /\ hist' = [hist EXCEPT !.seen = Ids(particles), !.kept = {},
                            !.updUnbound = FALSE, !.order = <<>>]
    /\ UNCHANGED <<now, file, last_compile, script_not_found_logged, update,
                   add, update_ms, add_ms, EMITTER, particles, instances,
                   modified, diag, nextId, quota, kinds, lock, pc>>

\* ------------------------------------------- the phases, step by step
\* main.rs:268-270 -- the EMITTER lock while the entry point runs:
\* add_particles takes it only at line 287, after add has returned.
CallLock_Guarded(l) == "add_particles"

CallLock(l) == l

\* main.rs:268-270 -- add_particles starts and, when add is bound, calls
\* it; the call will emit n particles.
AddCall ==
    /\ "add_particles" \notin ran
    /\ ManagerFree
    /\ lock' = CallLock(lock)
    /\ IF add = None
       THEN pc' = [at |-> "add_lock", left |-> 0, n |-> 0]
       ELSE \E n \in 0..MaxPerCall :
              /\ nextId + n - 1 <= quota
              /\ pc' = [at |-> "add_call", left |-> n, n |-> n]
    /\ UNCHANGED <<now, file, last_compile, script_not_found_logged, update,
                   add, update_ms, add_ms, EMITTER, particles, instances,
                   time, ran, modified, diag, nextId, quota, kinds, hist>>

\* main.rs:86-88 -- emit, called by the running entry point: lock, push,
\* unlock.  It waits while the mutex is held.
Emit ==
    /\ pc.at \in {"add_call", "update_call"}
    /\ pc.left > 0
    /\ lock = Free
    /\ EMITTER' = EMITTER \o Emitted(1, nextId, time,
                       IF pc.at = "add_call" THEN "add" ELSE "update")
    /\ nextId' = nextId + 1
    /\ pc' = [pc EXCEPT !.left = @ - 1]
    /\ UNCHANGED <<now, file, last_compile, script_not_found_logged, update,
                   add, update_ms, add_ms, particles, instances, time, ran,
                   modified, diag, quota, kinds, lock, hist>>

\* main.rs:271-273 -- add has returned.
AddReturn ==
    /\ pc.at = "add_call"
    /\ pc.left = 0
    /\ add_ms' = Measured(TRUE, add_ms, 1 + pc.n)
    /\ pc' = [at |-> "add_lock", left |-> 0, n |-> 0]
    /\ UNCHANGED <<now, file, last_compile, script_not_found_logged, update,
                   add, update_ms, EMITTER, particles, instances, time, ran,
                   modified, diag, nextId, quota, kinds, lock, hist>>

\* main.rs:287 -- add_particles locks EMITTER.
AddLock ==
    /\ pc.at = "add_lock"
    /\ lock = Free
    /\ lock' = "add_particles"
    /\ pc' = [at |-> "add_drain", left |-> 0, n |-> 0]
    /\ UNCHANGED <<now, file, last_compile, script_not_found_logged, update,
                   add, update_ms, add_ms, EMITTER, particles, instances,
                   time, ran, modified, diag, nextId, quota, kinds, hist>>

\* main.rs:288-294 -- the drain, and the guard dropped at the end of
\* add_particles.
AddDrain ==
    /\ pc.at = "add_drain"
    /\ particles' = particles \o Drain(EMITTER, time)
    /\ EMITTER' = <<>>
    /\ lock' = Free
    /\ pc' = Idling
    /\ ran' = ran \cup {"add_particles"}
    /\ hist' = [Ran(hist, "add_particles") EXCEPT
                  !.lastAddCall = add,
                  !.seen = @ \cup Ids(particles) \cup QIds(EMITTER)]
    /\ UNCHANGED <<now, file, last_compile, script_not_found_logged, update,
                   add, update_ms, add_ms, instances, time, modified, diag,
                   nextId, quota, kinds>>

\* main.rs:301-306 -- update_particles starts: it returns when update is
\* unbound, and otherwise enters retain_mut, whose calls of update will
\* emit n particles.
UpdCall ==
    /\ "update_particles" \notin ran
    /\ ManagerFree
    /\ IF update = None
       THEN /\ ran' = ran \cup {"update_particles"}
            /\ hist' = [Ran(hist, "update_particles") EXCEPT
                          !.lastUpdCall = None,
                          !.updUnbound = TRUE,
                          !.seen = @ \cup Ids(particles)]
            /\ particles' = Skipped(particles, time)
            /\ UNCHANGED pc
       ELSE /\ \E n \in 0..1 :
                 /\ n > 0 => (particles # <<>> /\ nextId + n - 1 <= quota)
                 /\ pc' = [at |-> "update_call", left |-> n, n |-> n]
            /\ UNCHANGED <<ran, hist, particles>>
    /\ UNCHANGED <<now, file, last_compile, script_not_found_logged, update,
                   add, update_ms, add_ms, EMITTER, instances, time,
                   modified, diag, nextId, quota, kinds, lock>>

\* main.rs:306-320 -- retain_mut has called update on every record.
UpdReturn ==
    /\ pc.at = "update_call"
    /\ pc.left = 0
    /\ particles' = UpdateResult(particles, EMITTER, time, <<>>).list
    /\ update_ms' = Measured(TRUE, update_ms, 1 + Len(particles))
    /\ pc' = Idling
    /\ ran' = ran \cup {"update_particles"}
    /\ hist' = [Ran(hist, "update_particles") EXCEPT
                  !.lastUpdCall = update,
                  !.updUnbound = FALSE,
                  !.seen = @ \cup Ids(particles),
                  !.kept = Ids(particles'),
                  !.dead = @ \cup (Ids(particles) \ Ids(particles'))]
    /\ UNCHANGED <<now, file, last_compile, script_not_found_logged, update,
                   add, add_ms, EMITTER, instances, time, modified, diag,
                   nextId, quota, kinds, lock>>

\* A step of a running add_particles or update_particles.
PhaseStep == Emit \/ AddReturn \/ AddLock \/ AddDrain \/ UpdReturn

Next ==
    \/ Advance
    \/ WriteFile
    \/ DeleteFile
    \/ TouchBack
    \/ ReloadStat
    \/ ReloadRest
    \/ AddParticles
    \/ UpdateParticles
    \/ UpdateInstances
    \/ EndTick

Spec == Init /\ [][Next]_vars

\* The simulation under a script that is edited but never removed or
\* backdated, with the wall clock standing still.
SimNext ==
    \/ WriteFile
    \/ ReloadStat
    \/ ReloadRest
    \/ AddParticles
    \/ UpdateParticles
    \/ UpdateInstances
    \/ EndTick

SimSpec == SimInit /\ [][SimNext]_vars

\* The bindings under scripts of every kind that are edited and removed
\* while the clock runs and the ticks go on.
BindNext ==
    \/ Advance
    \/ WriteFile
    \/ DeleteFile
    \/ ReloadStat
    \/ ReloadRest
    \/ AddParticles
    \/ UpdateParticles
    \/ UpdateInstances
    \/ EndTick

BindSpec == BindInit /\ [][BindNext]_vars

\* The add and update phases step by step, with the EMITTER mutex, under a
\* script that may be rewritten.
LockNext ==
    \/ WriteFile
    \/ ReloadStat
    \/ ReloadRest
    \/ AddCall
    \/ Emit
    \/ AddReturn
    \/ AddLock
    \/ AddDrain
    \/ UpdCall
    \/ UpdReturn
    \/ UpdateInstances
    \/ EndTick

LockSpec == LockInit /\ [][LockNext]_vars

\* The same, with a running phase never stalled for ever while it has a
\* step to take: the thread of the system keeps running and the script
\* call returns.
LockFairSpec == LockSpec /\ WF_vars(PhaseStep)

\* ------------------------------------------------------------ properties
\* A reload completes in this step.
ReloadDone == modified # Idle /\ modified' = Idle

\* This step invokes the compiler.
Compiled == hist'.nCompiles = hist.nCompiles + 1

\* This step is the add phase, the update phase.
AddStep == "add_particles" \notin ran /\ "add_particles" \in ran'

UpdStep == "update_particles" \notin ran /\ "update_particles" \in ran'

\* a runs before b in this tick.
Before(a, b) ==
    \E i, j \in 1..Len(hist.order) :
        i < j /\ hist.order[i] = a /\ hist.order[j] = b

IsPrefix(s, t) == Len(s) <= Len(t) /\ s = SubSeq(t, 1, Len(s))

\* C1 -- entry-point independence: a reload that compiles a script defining
\* only add leaves update unbound, and one that compiles a script defining
\* only update leaves add unbound, whatever was bound before.
C1_EntryPointIndependence ==
    [][ (ReloadDone /\ Compiled /\ "err" \notin Compile(file)) =>
            /\ Compile(file) = {"add"} => update' = None
            /\ Compile(file) = {"update"} => add' = None ]_vars

\* C2 -- a reload whose compile fails leaves add and update as they were and
\* prints exactly one compile-error diagnostic, a reload that does not
\* compile prints none, and while the latest compile is a failed one the
\* add and update phases call the entry points bound before it.
C2_CompileFailureKeepsBindings ==
    [][ /\ (ReloadDone /\ Compiled /\ "err" \in Compile(file)) =>
               (add' = add /\ update' = update /\ diag' = {CompileErrMsg})
        /\ (ReloadDone /\ ~Compiled) => CompileErrMsg \notin diag'
        /\ (AddStep /\ hist.failed) => hist'.lastAddCall = hist.preFail[1]
        /\ (UpdStep /\ hist.failed) => hist'.lastUpdCall = hist.preFail[2] ]_vars

\* C2 witness: the previous tick's reload failed to compile over two bound
\* entry points, and this tick's add phase has called the old add.
C2_Witness ==
    /\ hist.failed
    /\ diag = {CompileErrMsg}
    /\ "reload_script" \notin ran
    /\ "add_particles" \in ran
    /\ hist.preFail[1] # None
    /\ hist.preFail[2] # None
    /\ hist.lastAddCall = hist.preFail[1]

C5_ReloadOnChange ==
    (modified = Idle /\ file.present /\ ~file.backdated
        /\ file.ver # hist.compiledVer) => last_compile <= file.mtime

\* C6 -- a reload prints the not-found diagnostic exactly when it finds the
\* script unreadable and the previous reload did not.
C6_EdgeTriggeredNotFound ==
    [][ ReloadDone =>
          ((NotFoundMsg \in diag') <=> (modified = StatErr /\ ~hist.prevMissing)) ]_vars

\* C6 witness: the first reload of a second run of unreadable reloads has
\* printed the diagnostic again.
C6_Witness ==
    /\ hist.missRuns = 2
    /\ hist.prevMissing
    /\ NotFoundMsg \in diag

\* C7 -- lifecycle law: at the end of a tick, a record that was in the live
\* list during the tick is still there exactly when the update phase found
\* update unbound or update returned a particle for it.
C7_LifecycleLaw ==
    ran = Systems =>
        \A id \in hist.seen :
            (id \in Ids(particles)) <=> (hist.updUnbound \/ id \in hist.kept)

\* C8 as stated -- every particle emitted during a tick, from add or from
\* update, is in the live list from that tick's drain on, with start_time
\* the clock of the tick that emitted it.
C8_DrainCompleteness_AnyCaller ==
    /\ \A i \in 1..Len(particles) :
           particles[i].start_time = particles[i].particle.born
    /\ \A i \in 1..Len(EMITTER) : EMITTER[i].born = time

\* C8 amended -- a particle emitted from add is drained by the same
\* add_particles run, with start_time the clock of that tick; a particle
\* emitted from update waits in the queue for the next add_particles run,
\* in the same tick or the next; every emitted particle is in the queue or
\* the live list exactly once until update returns absent for it.
C8_DrainCompleteness ==
    /\ \A i \in 1..Len(EMITTER) : EMITTER[i].src = "update"
    /\ \A i \in 1..Len(particles) :
         LET r == particles[i] IN
           /\ r.particle.src = "add" => r.start_time = r.particle.born
           /\ r.particle.src = "update" =>
                  r.start_time \in {r.particle.born, r.particle.born + 1}
    /\ Cardinality(Ids(particles)) = Len(particles)
    /\ Cardinality(QIds(EMITTER)) = Len(EMITTER)
    /\ Ids(particles) \cap QIds(EMITTER) = {}
    /\ \A id \in 1..(nextId - 1) :
           id \in Ids(particles) \cup QIds(EMITTER) \cup hist.dead

\* C8 witness: a particle emitted from update in one tick is in the live
\* list with the next tick's clock as start_time, behind one emitted from
\* add and drained in the tick that emitted it.
C8_Witness ==
    /\ \E i \in 1..Len(particles) :
           /\ particles[i].particle.src = "update"
           /\ particles[i].start_time = particles[i].particle.born + 1
           /\ particles[i].start_time = time
    /\ \E i \in 1..Len(particles) :
           /\ particles[i].particle.src = "add"
           /\ particles[i].start_time = particles[i].particle.born

\* C9 -- the phases of a tick run in the order reload, add and drain,
\* update, publish.
C9_FixedPhaseOrder ==
    IsPrefix(hist.order, <<"reload_script", "add_particles",
                           "update_particles", "update_instances">>)

\* C10 -- the add phase and the update phase of one tick see the bindings
\* of the same completed reloads: no reload runs between them.
C10_SameReloads ==
    /\ ~(Before("add_particles", "reload_script")
           /\ Before("reload_script", "update_particles"))
    /\ ~(Before("update_particles", "reload_script")
           /\ Before("reload_script", "add_particles"))

\* C11 -- the no-script scenario: as long as no reload has found the script
\* readable, add and update are unbound, the compiler has not been invoked,
\* and the emission queue and the live list are empty.
C11_NoScript ==
    hist.maxObs = -1 =>
        /\ add = None
        /\ update = None
        /\ hist.nCompiles = 0
        /\ EMITTER = <<>>
        /\ particles = <<>>

\* C11 witness: the third tick has run every system and the script has been
\* unreadable at each of the three reloads.
C11_Witness ==
    /\ time = 2
    /\ ran = Systems
    /\ ~file.present
    /\ hist.maxObs = -1
    /\ hist.prevMissing
    /\ hist.lastAddCall = None
    /\ hist.lastUpdCall = None
    /\ particles = <<>>

\* C12 -- emission during update is isolated: an update phase whose calls
\* emit leaves the live list as the same phase without emission leaves it,
\* adds no record to it, and only appends the emitted particles to the
\* queue; they enter the live list at a later drain.
C12_EmitIsolated ==
    [][ /\ UpdStep =>
             LET new == nextId..(nextId' - 1) IN
               /\ Ids(particles') \subseteq Ids(particles)
               /\ Len(particles') <= Len(particles)
               /\ update # None => particles' = RetainMut(particles, time)
               /\ new \cap Ids(particles') = {}
               /\ IsPrefix(EMITTER, EMITTER')
               /\ QIds(EMITTER') = QIds(EMITTER) \cup new
        /\ AddStep => QIds(EMITTER) \subseteq Ids(particles') ]_vars

\* C12 witness: this tick's update phase has run over a record it kept, and
\* the particle a call emitted is in the queue and not in the live list.
C12_Witness ==
    /\ "update_particles" \in ran
    /\ hist.kept # {}
    /\ particles # <<>>
    /\ \E i \in 1..Len(EMITTER) :
           /\ EMITTER[i].src = "update"
           /\ EMITTER[i].born = time
           /\ EMITTER[i].id \notin Ids(particles)

\* C13 -- the drain: every tick runs the add phase once, bound or not; the
\* add phase leaves the queue empty and the live list as it was, followed by
\* the particles that were queued, in the order they were queued.
C13_DrainFifo ==
    [][ /\ AddStep =>
             LET k == Len(particles)
                 em == Emitted(nextId' - nextId, nextId, time, "add")
                 q == EMITTER \o em
             IN  /\ EMITTER' = <<>>
                 /\ Len(particles') = k + Len(q)
                 /\ SubSeq(particles', 1, k) = particles
                 /\ \A i \in 1..Len(q) : particles'[k + i].particle = q[i]
        /\ time' # time => "add_particles" \in ran
        /\ "add_particles" \in ran => ("add_particles" \in ran' \/ time' # time)
      ]_vars

\* C13 witness: one drain has appended the two particles a call of add
\* emitted, the first emitted first, and the queue is empty.
C13_Witness ==
    /\ "add_particles" \in ran
    /\ EMITTER = <<>>
    /\ \E i \in 1..(Len(particles) - 1) :
           /\ particles[i].start_time = time
           /\ particles[i + 1].start_time = time
           /\ particles[i].particle.born = time
           /\ particles[i + 1].particle.id = particles[i].particle.id + 1

\* C14 -- the published buffer matches the live list: when a tick has run
\* all its systems, the instance buffer has one record per live particle,
\* the i-th with the values of the i-th live particle.
C14_PublishedMatchesLive ==
    ran = Systems =>
        /\ Len(instances) = Len(particles)
        /\ \A i \in 1..Len(particles) :
               instances[i] = InstanceOf(particles[i].particle)

\* C15 -- start_time is immutable: a record that enters the live list has
\* the clock of that step as start_time, and a record that stays in the
\* list keeps its start_time through every step (add, drain, update,
\* reload); the list never holds two records of one particle.
C15_StartTimeImmutable ==
    [][ /\ \A i \in 1..Len(particles') :
             LET r == particles'[i] IN
               IF r.particle.id \in Ids(particles)
               THEN \E j \in 1..Len(particles) :
                        /\ particles[j].particle.id = r.particle.id
                        /\ particles[j].start_time = r.start_time
               ELSE AddStep /\ r.start_time = time
        /\ Cardinality(Ids(particles')) = Len(particles') ]_vars

\* C15 witness: a record drained in an earlier tick has been replaced by
\* this tick's update (its scale is the one of a particle one tick old),
\* after this tick's reload and add phase; its start_time is still the
\* clock of its drain.
C15_Witness ==
    /\ time >= 1
    /\ {"reload_script", "add_particles", "update_particles"} \subseteq ran
    /\ \E i \in 1..Len(particles) :
           /\ particles[i].start_time = time - 1
           /\ particles[i].start_time = particles[i].particle.born
           /\ particles[i].particle.scale = 2

\* C16 -- an update phase that finds update unbound leaves the live list
\* (records, order, values, start_times) and the queue as they were.
C16_UnboundUpdateKeepsList ==
    [][ (UpdStep /\ update = None) =>
            (particles' = particles /\ EMITTER' = EMITTER) ]_vars

\* C16 witness: update is unbound, this tick's update phase has run, and
\* the live list still holds a record that is Lifetime ticks old.
C16_Witness ==
    /\ update = None
    /\ "update_particles" \in ran
    /\ hist.updUnbound
    /\ \E i \in 1..Len(particles) :
           /\ particles[i].start_time + Lifetime <= time
           /\ particles[i].particle.scale = 0

\* C17 -- a reload that finds the script unreadable does not invoke the
\* compiler, leaves add and update as they were and sets last_compile to
\* the current clock value; the phases after it call the bindings from
\* before it.
C17_MissingFileKeepsBindings ==
    [][ /\ (ReloadDone /\ modified = StatErr) =>
              /\ ~Compiled
              /\ add' = add
              /\ update' = update
              /\ last_compile' = now
        /\ (AddStep /\ hist.prevMissing) => (hist'.lastAddCall = add /\ add' = add)
        /\ (UpdStep /\ hist.prevMissing) => (hist'.lastUpdCall = update /\ update' = update)
      ]_vars

\* C17 witness: the script was compiled and bound, then two reloads in a
\* row found it unreadable, and this tick's add phase has called the add
\* bound before the file disappeared.
C17_Witness ==
    /\ time = 2
    /\ hist.nCompiles = 1
    /\ hist.prevMissing
    /\ hist.missRuns = 1
    /\ ~file.present
    /\ {"reload_script", "add_particles"} \subseteq ran
    /\ add # None
    /\ update # None
    /\ hist.lastAddCall = add
    /\ last_compile = now
    /\ last_compile > hist.lastCompAt

\* C18 as stated -- add_ms changes only in an add phase that called add,
\* update_ms changes only in an update phase that called update on a
\* record; an unbound phase and a reload leave both as they were.
C18_StaleInstrumentation_CalledOnly ==
    [][ /\ add_ms' # add_ms => (AddStep /\ add # None)
        /\ update_ms' # update_ms =>
               (UpdStep /\ update # None /\ particles # <<>>)
        /\ (AddStep /\ add = None) => add_ms' = add_ms
        /\ (UpdStep /\ update = None) => update_ms' = update_ms
        /\ ReloadDone => (add_ms' = add_ms /\ update_ms' = update_ms) ]_vars

\* C18 amended -- add_ms changes only in an add phase that found add bound,
\* update_ms changes only in an update phase that found update bound (also
\* when the live list is empty and update is called on no record); an
\* unbound phase and a reload leave both as they were.
C18_StaleInstrumentation ==
    [][ /\ add_ms' # add_ms => (AddStep /\ add # None)
        /\ update_ms' # update_ms => (UpdStep /\ update # None)
        /\ (AddStep /\ add = None) => add_ms' = add_ms
        /\ (UpdStep /\ update = None) => update_ms' = update_ms
        /\ ReloadDone => (add_ms' = add_ms /\ update_ms' = update_ms) ]_vars

\* C18 witness: no particle was ever emitted, so update was never called,
\* and this tick's update phase, with update bound, has written update_ms;
\* add is unbound and add_ms is as constructed after the add phase.
C18_Witness ==
    /\ nextId = 1
    /\ update # None
    /\ add = None
    /\ {"add_particles", "update_particles"} \subseteq ran
    /\ update_ms # 0
    /\ add_ms = 0

\* C19 -- bindings are monotonic: add and update change only in a reload
\* that compiles, and only to the function of the content just compiled; a
\* bound entry point is never unbound again.
C19_BindingsMonotonic ==
    [][ /\ add # None => add' # None
        /\ update # None => update' # None
        /\ add' # add =>
               (ReloadDone /\ Compiled /\ add' = file.ver /\ "add" \in Compile(file))
        /\ update' # update =>
               (ReloadDone /\ Compiled /\ update' = file.ver /\ "update" \in Compile(file))
      ]_vars

\* C19 witness: a script defining both entry points was compiled, the file
\* was then found unreadable, and a second version defining only add has
\* been compiled since: add is the new function, update still the old one.
C19_Witness ==
    /\ add = 2
    /\ update = 1
    /\ hist.missRuns = 1
    /\ hist.nCompiles >= 2
    /\ hist.compiledVer = 2
    /\ file.kind = "add"
    /\ ~hist.failed

\* The EMITTER lock is free whenever add or update is executing, it is
\* held only by the drain, and a phase that has started can take its next
\* step (an emit, the return of the call, the lock, the drain).
LockDiscipline ==
    /\ pc.at \in {"add_call", "update_call"} => lock = Free
    /\ lock # Free => (lock = "add_particles" /\ pc.at = "add_drain")
    /\ pc # Idling => ENABLED PhaseStep

\* C20 -- no self-deadlock on the emission queue: the simulation never
\* holds the EMITTER lock while add or update is executing, so no emit
\* waits for it, and every add or update phase that starts comes to its
\* end.
C20_NoSelfDeadlock ==
    []LockDiscipline /\ ((pc # Idling) ~> (pc = Idling))

\* C20 witness: a particle that add emitted went through the lock and the
\* drain into the live list, and the running update has emitted another
\* one, which is in the queue with the lock free again.
C20_Witness ==
    /\ pc.at = "update_call"
    /\ pc.n = 1
    /\ pc.left = 0
    /\ lock = Free
    /\ \E i \in 1..Len(particles) : particles[i].particle.src = "add"
    /\ \E i \in 1..Len(EMITTER) :
           EMITTER[i].src = "update" /\ EMITTER[i].born = time

====
